---- MODULE Spec2Model ----
(***************************************************************************)
(* Model of the Equilibrium chat application: the ChatScreen generation    *)
(* orchestrator of App.tsx (handleSendMessage, the token callback,         *)
(* stopGeneration and the controls that invoke them), and the             *)
(* initialization of the retrieval service (RAGService.initialize of      *)
(* src/services/ragService.js) under any number of concurrent callers,     *)
(* and the service's similarity search and retrieval.  The service follows *)
(* src/services/ragService.js and takes from the earlier version of the    *)
(* same class (the collection filter, retrieval, close, the embedder)     *)
(* what that file has dropped.                                             *)
(*                                                                         *)
(* A string is modelled as a sequence of characters; a few long fixed      *)
(* texts (the stop marker's visible part, the prompt template) are one     *)
(* element each.  Every asynchronous call of the code (embedding, search,  *)
(* completion, stopCompletion) is a pending call that the environment      *)
(* settles later, either way, in any order; the code that runs between two *)
(* awaits is one atomic action, as on the single JavaScript thread.        *)
(***************************************************************************)
EXTENDS Integers, Sequences, FiniteSets, TLC

\* ---------------------------------------------------------------- bounds
MaxSubmits == 2      \* accepted submissions (pipelines) in one behaviour
MaxTokens  == 2      \* token fragments the backend streams in one behaviour
MaxStops   == 2      \* presses of the Stop control in one behaviour
MaxCalls   == 7      \* backend calls (embedding, searchSimilar, completion,
                     \* stopCompletion) issued in one behaviour
MaxCallers == 3      \* calls of RAGService.initialize() made
MaxSeqLen == 2       \* token vectors in the output of the embedding model
MaxRows    == 3      \* rows of the documents table

\* ------------------------------------------------------------ text values
Whitespace == {" ", "\n"}

\* What the user can type or pass as the initial message: empty, blank,
\* and a message with trailing whitespace.
Texts == {<< >>, <<" ">>, <<"a", " ">>}

\* Token fragments the backend can stream.
Tokens == {<<"H">>, <<" ">>}

\* predicted_per_second values the backend can report, in thousandths.
Rates == {12345}

\* Result lists RAGService.searchSimilar can resolve with (contents only).
RagResults == {<< >>, << <<"d", " ">> >>}

INITIAL_CONVERSATION ==
    << [role |-> "system",
        content |-> <<"This is a conversation between user and assistant, a friendly chatbot.">>] >>

PROMPT_TEMPLATE == <<"Please play the role of a psychiatrist. [...] respond to the new patient's message:">>

StopMarker == <<"\n", "\n", "*Generation stopped by user*">>

\* -------------------------------------------------------------- variables
VARIABLES
    llamaContext,     \* TRUE iff useModel().llamaContext is non-null
    isRAGReady,       \* useModel().isRAGReady
    mounted,          \* TRUE once ChatScreen's mount effect has run
    conversation,     \* useState<Message[]>
    isGenerating,     \* useState(false)
    userInput,        \* useState<string>('')
    tokensPerSecond,  \* useState<number[]>([]), values in hundredths
    alert,            \* title of the last Alert.alert shown, "" if none
    pipes,            \* one record per handleSendMessage call past its guards
    stopCalls,        \* number of llamaContext.stopCompletion() calls pending
    stopsPressed,     \* presses of the Stop control so far (bounded by MaxStops)
    db,               \* RAGService.db: "null" or the "handle" openDatabase returned
    isInitialized,    \* RAGService.isInitialized
    isInitializing,   \* RAGService.isInitializing
    callers,          \* one record per initialize() call: where it stands
    documents,        \* the rows of the documents table, in scan order
    call,             \* the searchSimilar / retrieval call: arguments, position
    searchResults,    \* what performSimilaritySearch resolved with
    outcome,          \* what retrieval returned
    session,          \* TRUE iff the embedder's session and tokenizer are loaded
    tensor,           \* the output of the embedding model for the text embedded
    embedded          \* the embedText call: position, error, vector returned

\* the state of ChatScreen
chat == <<llamaContext, isRAGReady, mounted, conversation, isGenerating,
          userInput, tokensPerSecond, alert, pipes, stopCalls, stopsPressed>>

\* the state of the RAGService singleton and of the calls made to it
service == <<db, isInitialized, isInitializing, callers>>

\* the embedder and the embedText call made to it
embedder == <<session, tensor, embedded>>

\* the documents table and the search made on it, and the embedder
search == <<documents, call, searchResults, outcome, embedder>>

vars == <<chat, service, search>>

\* ------------------------------------------------------- string functions
RECURSIVE TrimStart(_)
TrimStart(s) ==
    IF s = << >> THEN s
    ELSE IF Head(s) \in Whitespace THEN TrimStart(Tail(s)) ELSE s

RECURSIVE TrimEnd(_)
TrimEnd(s) ==
    IF s = << >> THEN s
    ELSE IF s[Len(s)] \in Whitespace THEN TrimEnd(SubSeq(s, 1, Len(s) - 1)) ELSE s

\* String.prototype.trim
Trim(s) == TrimEnd(TrimStart(s))

\* Array.prototype.slice(0, -1)
SliceDropLast(a) == SubSeq(a, 1, Len(a) - 1)

\* parseFloat(x.toFixed(2)): thousandths in, hundredths out
ToFixed2(x) == (x + 5) \div 10

Message(r, c) == [role |-> r, content |-> c]

\* ------------------------------------------------- prompt augmentation
\* ragResults.map((item, idx) => `Document ${idx + 1}:\n${item.content.trim()}`)
DocumentText(idx, content) ==
    <<"Document ", ToString(idx), ":", "\n">> \o Trim(content)

\* Array.prototype.join('\n\n') of the mapped documents
RECURSIVE JoinDocuments(_, _)
JoinDocuments(results, idx) ==
    IF idx > Len(results) THEN << >>
    ELSE DocumentText(idx, results[idx])
         \o (IF idx < Len(results) THEN <<"\n", "\n">> ELSE << >>)
         \o JoinDocuments(results, idx + 1)

augmentedUserContent(ragResults, finalInput) ==
    <<"Here are some relevant documents to consider before answering:", "\n", "\n">>
    \o JoinDocuments(ragResults, 1)
    \o <<"\n", "\n", "-", "-", "-", "\n", "\n">>
    \o PROMPT_TEMPLATE \o <<"\n">> \o finalInput

\* Faulty variant: the backend is handed the raw user text.
messagesForLlama_Raw(base, ragResults, finalInput) ==
    Append(base, Message("user", finalInput))

messagesForLlama(base, ragResults, finalInput) ==
    Append(base, Message("user", augmentedUserContent(ragResults, finalInput)))

\* ------------------------------------------------------ documents, search
\* An embedding is a sequence of integers.  A similarity dot / sqrt(den2) is
\* kept exactly, as the record [num |-> dot, den2 |-> den2] with den2 > 0.
Similarity(num, den2) == [num |-> num, den2 |-> den2]

\* x * |x|: increasing in x, so it orders similarities as they are ordered
SignedSquare(x) == IF x >= 0 THEN x * x ELSE -(x * x)

\* a >= b on similarities
Geq(a, b) == SignedSquare(a.num) * b.den2 >= SignedSquare(b.num) * a.den2

\* Query embeddings handed to searchSimilar; << >> is the empty array,
\* <<0, 0>> a vector of norm 0.
QueryEmbeddings == {<<1, 0>>, <<0, 0>>, << >>}

\* Values of options.topK.
TopKs == {1, 2, 5}

\* Values of options.threshold: -0.5, 0.0 and 0.4.
Thresholds == {Similarity(-1, 4), Similarity(0, 1), Similarity(2, 25)}

\* Values of options.collectionName; "null" is no filter.
CollectionNames == {"null", "a"}

\* Values of options.maxContextLength.
MaxContextLengths == {5, 9}

\* The embedding column holds JSON text: Json(v) is text that JSON.parse
\* reads as the array v, Unparsable text on which it throws.
Json(v) == [throws |-> FALSE, value |-> v]

Unparsable == [throws |-> TRUE, value |-> << >>]

\* what a call that throws yields
Thrown == [throws |-> TRUE]

\* Rows the documents table can hold: collection_name, embedding and text.  Against the
\* query <<1, 0>> the similarities are 1, 1, 1/sqrt(2), 1/sqrt(2), 0, and 0
\* for the zero vector; the last two rows are malformed.
DocumentRows ==
    { [collection_name |-> "a", embedding |-> Json(<<1, 0>>), content |-> <<"x", "x">>],
      [collection_name |-> "b", embedding |-> Json(<<1, 0>>), content |-> <<"y">>],
      [collection_name |-> "a", embedding |-> Json(<<1, 1>>), content |-> <<" ", "z">>],
      [collection_name |-> "b", embedding |-> Json(<<1, 1>>),
       content |-> <<"l", "l", "l", "l", "l", "l">>],
      [collection_name |-> "a", embedding |-> Json(<<0, 1>>), content |-> <<"w">>],
      [collection_name |-> "a", embedding |-> Json(<<0, 0>>), content |-> <<"v">>],
      [collection_name |-> "b", embedding |-> Json(<<1>>), content |-> <<"u">>],
      [collection_name |-> "a", embedding |-> Unparsable, content |-> <<"t">>] }

\* The tables: up to MaxRows rows in scan order; the id of a row is its
\* position.
Tables == UNION {[1..n -> DocumentRows] : n \in 0..MaxRows}

\* The calls: the arguments of searchSimilar / retrieval, pc, where the call
\* stands ("idle": not made; "query": the SELECT is pending; "searched":
\* searchSimilar resolved; "done": over), and error, what it threw.
SearchCalls ==
    [embedding : QueryEmbeddings, topK : TopKs, threshold : Thresholds,
     collectionName : CollectionNames, maxContextLength : MaxContextLengths,
     pc : {"idle"}, error : {"none"}]

NoOutcome ==
    [context |-> << >>, contextLength |-> 0, documentsUsed |-> << >>,
     totalDocumentsFound |-> 0, returned |-> FALSE]

\* The search ChatScreen makes (topK: 2, threshold: 0.4), on a two-row table.
SearchOfChatScreen ==
    /\ documents =
          << [collection_name |-> "a", embedding |-> Json(<<1, 0>>), content |-> <<"x", "x">>],
             [collection_name |-> "a", embedding |-> Json(<<1, 1>>), content |-> <<" ", "z">>] >>
    /\ call = [embedding |-> <<1, 0>>, topK |-> 2, threshold |-> Similarity(2, 25),
               collectionName |-> "null", maxContextLength |-> 9,
               pc |-> "idle", error |-> "none"]
    /\ searchResults = << >>
    /\ outcome = NoOutcome

\* cosineSimilarity(a, b): throws on different lengths, else
\* dot / (Math.sqrt(na) * Math.sqrt(nb) || 1)
RECURSIVE Dot(_, _)
Dot(a, b) ==
    IF a = << >> THEN 0 ELSE Head(a) * Head(b) + Dot(Tail(a), Tail(b))

\* Faulty variant: no "|| 1" on the denominator; a norm of 0 is an error.
cosineSimilarity_ThrowsOnZeroNorm(a, b) ==
    IF Len(a) # Len(b) THEN Thrown
    ELSE LET dot == Dot(a, b)
             na == Dot(a, a)
             nb == Dot(b, b)
         IN IF na * nb = 0 THEN Thrown ELSE Similarity(dot, na * nb)

cosineSimilarity(a, b) ==
    IF Len(a) # Len(b) THEN Thrown
    ELSE LET dot == Dot(a, b)
             na == Dot(a, a)
             nb == Dot(b, b)
         IN Similarity(dot, IF na * nb = 0 THEN 1 ELSE na * nb)

\* Faulty variant: no if (sim >= threshold).
ScanRow_NoThreshold(id, row, queryEmbedding, threshold) ==
    IF row.embedding.throws THEN << >>
    ELSE LET sim == cosineSimilarity(queryEmbedding, row.embedding.value) IN
         IF sim = Thrown THEN << >>
         ELSE << [id |-> id, content |-> row.content, similarity |-> sim,
                  collectionName |-> row.collection_name] >>

\* The body of the scan's try block for one row: the entry pushed to sims
\* (in a one-element sequence), or nothing when the row is below the
\* threshold or the try block throws (JSON.parse, cosineSimilarity).
ScanRow(id, row, queryEmbedding, threshold) ==
    IF row.embedding.throws THEN << >>
    ELSE LET sim == cosineSimilarity(queryEmbedding, row.embedding.value) IN
         IF sim = Thrown THEN << >>
         ELSE IF Geq(sim, threshold)
         THEN << [id |-> id, content |-> row.content, similarity |-> sim,
                  collectionName |-> row.collection_name] >>
         ELSE << >>

\* Faulty variant: no try/catch around the row; the scan ends at the first
\* row that throws.
RECURSIVE Scan_EndsAtBadRow(_, _, _, _, _)
Scan_EndsAtBadRow(rows, i, queryEmbedding, threshold, collectionName) ==
    IF i > Len(rows) THEN << >>
    ELSE IF collectionName # "null" /\ rows[i].collection_name # collectionName
    THEN Scan_EndsAtBadRow(rows, i + 1, queryEmbedding, threshold, collectionName)
    ELSE IF \/ rows[i].embedding.throws
            \/ Len(rows[i].embedding.value) # Len(queryEmbedding)
    THEN << >>
    ELSE ScanRow(i, rows[i], queryEmbedding, threshold)
         \o Scan_EndsAtBadRow(rows, i + 1, queryEmbedding, threshold, collectionName)

\* Faulty variant: the SELECT without its WHERE clause; rows of every
\* collection are scanned whatever collectionName is.
RECURSIVE Scan_NoFilter(_, _, _, _, _)
Scan_NoFilter(rows, i, queryEmbedding, threshold, collectionName) ==
    IF i > Len(rows) THEN << >>
    ELSE ScanRow(i, rows[i], queryEmbedding, threshold)
         \o Scan_NoFilter(rows, i + 1, queryEmbedding, threshold, collectionName)

\* for (let i = 0; i < results.rows.length; i++) { try {...} catch {...} }
\* over the rows the SELECT returned (WHERE collection_name = ? if
\* collectionName is given)
RECURSIVE Scan(_, _, _, _, _)
Scan(rows, i, queryEmbedding, threshold, collectionName) ==
    IF i > Len(rows) THEN << >>
    ELSE (IF collectionName # "null" /\ rows[i].collection_name # collectionName
          THEN << >>
          ELSE ScanRow(i, rows[i], queryEmbedding, threshold))
         \o Scan(rows, i + 1, queryEmbedding, threshold, collectionName)

\* Faulty variant: a sort that is not stable; an entry goes behind the
\* entries of equal similarity that followed it.
RECURSIVE InsertBySimilarity_Unstable(_, _)
InsertBySimilarity_Unstable(x, sorted) ==
    IF sorted = << >> THEN <<x>>
    ELSE IF Geq(Head(sorted).similarity, x.similarity)
         THEN <<Head(sorted)>> \o InsertBySimilarity_Unstable(x, Tail(sorted))
         ELSE <<x>> \o sorted

\* sims.sort((a, b) => b.similarity - a.similarity): a stable sort, highest
\* similarity first
RECURSIVE InsertBySimilarity(_, _)
InsertBySimilarity(x, sorted) ==
    IF sorted = << >> THEN <<x>>
    ELSE IF Geq(Head(sorted).similarity, x.similarity)
            /\ ~Geq(x.similarity, Head(sorted).similarity)
         THEN <<Head(sorted)>> \o InsertBySimilarity(x, Tail(sorted))
         ELSE <<x>> \o sorted

RECURSIVE SortBySimilarity(_)
SortBySimilarity(sims) ==
    IF sims = << >> THEN << >>
    ELSE InsertBySimilarity(Head(sims), SortBySimilarity(Tail(sims)))

\* a.slice(0, n) for n >= 0
Slice(a, n) == SubSeq(a, 1, IF n < Len(a) THEN n ELSE Len(a))

\* Faulty variant: the slice is taken before the sort.
performSimilaritySearch_SliceFirst(rows, queryEmbedding, topK, threshold, collectionName) ==
    SortBySimilarity(Slice(Scan(rows, 1, queryEmbedding, threshold, collectionName),
                           topK))

performSimilaritySearch(rows, queryEmbedding, topK, threshold, collectionName) ==
    Slice(SortBySimilarity(Scan(rows, 1, queryEmbedding, threshold, collectionName)),
          topK)

\* Faulty variant: no test of the budget; every document is appended.
RECURSIVE BuildContext_NoBudget(_, _, _, _, _)
BuildContext_NoBudget(similarDocs, context, contextLength, usedDocs, maxContextLength) ==
    IF similarDocs = << >>
    THEN [context |-> context, contextLength |-> contextLength, usedDocs |-> usedDocs]
    ELSE LET doc == Head(similarDocs)
             docText == doc.content \o <<"\n", "\n">>
         IN BuildContext_NoBudget(Tail(similarDocs), context \o docText,
                                  contextLength + Len(docText),
                                  Append(usedDocs,
                                         [id |-> doc.id, similarity |-> doc.similarity,
                                          collectionName |-> doc.collectionName]),
                                  maxContextLength)

\* Faulty variant: a document over the budget is passed over (continue) and
\* the loop goes on.
RECURSIVE BuildContext_Continue(_, _, _, _, _)
BuildContext_Continue(similarDocs, context, contextLength, usedDocs, maxContextLength) ==
    IF similarDocs = << >>
    THEN [context |-> context, contextLength |-> contextLength, usedDocs |-> usedDocs]
    ELSE LET doc == Head(similarDocs)
             docText == doc.content \o <<"\n", "\n">>
         IN IF contextLength + Len(docText) <= maxContextLength
            THEN BuildContext_Continue(Tail(similarDocs), context \o docText,
                              contextLength + Len(docText),
                              Append(usedDocs,
                                     [id |-> doc.id, similarity |-> doc.similarity,
                                      collectionName |-> doc.collectionName]),
                              maxContextLength)
            ELSE BuildContext_Continue(Tail(similarDocs), context, contextLength,
                                       usedDocs, maxContextLength)

\* The loop of retrieval over similarDocs, from the values it has so far.
RECURSIVE BuildContext(_, _, _, _, _)
BuildContext(similarDocs, context, contextLength, usedDocs, maxContextLength) ==
    IF similarDocs = << >>
    THEN [context |-> context, contextLength |-> contextLength, usedDocs |-> usedDocs]
    ELSE LET doc == Head(similarDocs)
             docText == doc.content \o <<"\n", "\n">>
         IN IF contextLength + Len(docText) <= maxContextLength
            THEN BuildContext(Tail(similarDocs), context \o docText,
                              contextLength + Len(docText),
                              Append(usedDocs,
                                     [id |-> doc.id, similarity |-> doc.similarity,
                                      collectionName |-> doc.collectionName]),
                              maxContextLength)
            ELSE [context |-> context, contextLength |-> contextLength,
                  usedDocs |-> usedDocs]

\* what retrieval returns for the documents searchSimilar resolved with
RetrievalOutcome(similarDocs, maxContextLength) ==
    LET built == BuildContext(similarDocs, << >>, 0, << >>, maxContextLength) IN
    [context |-> Trim(built.context),
     contextLength |-> built.contextLength,
     documentsUsed |-> built.usedDocs,
     totalDocumentsFound |-> Len(similarDocs),
     returned |-> TRUE]


\* ---------------------------------------------------------------- embedder
\* Components of the vectors the embedding model puts out; hidden is 2.
Components == {-1, 0, 1}

HiddenVectors == [1..2 -> Components]

\* The output tensor of session.run: dims.length 2 is an already pooled
\* [1, hidden] vector, dims.length 3 is [1, seqLen, hidden], one vector per
\* token; data holds the vectors.
Tensors ==
    [dims : {2}, data : [1..1 -> HiddenVectors]]
    \cup UNION {[dims : {3}, data : [1..n -> HiddenVectors]] : n \in 1..MaxSeqLen}

\* A vector of reals kept exactly: component j is num[j] / sqrt(den2).
Scaled(num, den2) == [num |-> num, den2 |-> den2]

\* the embedText call before it is made
NotEmbedded == [pc |-> "idle", error |-> "none", vector |-> Scaled(<< >>, 1)]

\* No embedder loaded, no embedText call made (the embedder is not used by
\* ChatScreen, which takes its embeddings from llama.rn).
NoEmbedder ==
    /\ session = FALSE
    /\ tensor = [dims |-> 2, data |-> << <<1, 0>> >>]
    /\ embedded = NotEmbedded

\* sum[j] += outTensor.data[i * hidden + j] over the tokens
RECURSIVE SumVectors(_)
SumVectors(data) ==
    IF Len(data) = 1 THEN data[1]
    ELSE LET rest == SumVectors(Tail(data))
         IN [j \in 1..Len(data[1]) |-> data[1][j] + rest[j]]

\* vector = outTensor.data, or sum.map(v => v / seqLen)
Pooled(t) ==
    IF t.dims = 2 THEN Scaled(t.data[1], 1)
    ELSE Scaled(SumVectors(t.data), Len(t.data) * Len(t.data))

\* The square of Math.hypot(...vector), as the fraction n / d.
Norm2(v) == [n |-> Dot(v.num, v.num), d |-> v.den2]

\* Faulty variant: the pooled vector is returned as it is.
L2Normalise_Not(v) == v

\* vector.map(v => v / (norm || 1)): a norm of 0 divides by 1
L2Normalise(v) ==
    LET norm2 == Norm2(v)
    IN IF norm2.n = 0 THEN v
       ELSE Scaled(v.num, (v.den2 * norm2.n) \div norm2.d)

\* ----------------------------------------------------------- initial state
Callers == 1..MaxCallers

\* new RAGService(): the constructor; no initialize() call made yet
constructor ==
    /\ db = "null"
    /\ isInitialized = FALSE
    /\ isInitializing = FALSE
    /\ callers = [c \in Callers |-> [pc |-> "idle", ret |-> "none"]]

\* HomeScreen sets isRAGReady after its await RAGService.initialize() (and
\* the connection test) returned: the service ChatScreen finds is the
\* initialized one when isRAGReady, the constructed one otherwise.
ServiceAsLeftByHomeScreen ==
    /\ db = IF isRAGReady THEN "handle" ELSE "null"
    /\ isInitialized = isRAGReady
    /\ isInitializing = FALSE
    /\ callers = [c \in Callers |-> [pc |-> "idle", ret |-> "none"]]

Init ==
    /\ llamaContext \in BOOLEAN
    /\ isRAGReady \in BOOLEAN
    /\ mounted = FALSE
    /\ conversation = INITIAL_CONVERSATION
    /\ isGenerating = FALSE
    /\ userInput = << >>
    /\ tokensPerSecond = << >>
    /\ alert = ""
    /\ pipes = << >>
    /\ stopCalls = 0
    /\ stopsPressed = 0
    /\ ServiceAsLeftByHomeScreen
    /\ SearchOfChatScreen
    /\ NoEmbedder

\* ------------------------------------------------------ handleSendMessage
\* The synchronous part of handleSendMessage, up to its first await.
\* A pipe records the closure of the call: finalInput, the conversation
\* the closure captured (base), currentAssistantMessage (cam), the number
\* of token callbacks delivered (ntok), the messages handed to
\* llamaContext.completion (<< >> while it has not been called), pc, the
\* await the call is suspended at ("returned" once it is over), and error,
\* the catch block that ran ("none" if none did).
NewPipe(finalInput) ==
    [pc |-> "embedding", error |-> "none", finalInput |-> finalInput,
     base |-> conversation, cam |-> << >>, ntok |-> 0, messages |-> << >>]

\* Backend calls a handleSendMessage call has issued, by where it stands.
RECURSIVE SumCalls(_)
SumCalls(ps) ==
    IF ps = << >> THEN 0
    ELSE (CASE Head(ps).messages # << >> -> 3
            [] Head(ps).pc = "search" \/ Head(ps).error = "search" -> 2
            [] OTHER -> 1) + SumCalls(Tail(ps))

\* backend calls issued so far (bounded by MaxCalls)
CallsIssued == SumCalls(pipes) + stopsPressed

\* Faulty variant: the user turn stores the trimmed text.
handleSendMessage_Trimmed(input) ==
    IF ~llamaContext THEN
        /\ alert' = "LLM not ready"
        /\ UNCHANGED <<conversation, isGenerating, userInput, tokensPerSecond, pipes>>
    ELSE IF ~isRAGReady THEN
        /\ alert' = "RAG not ready"
        /\ UNCHANGED <<conversation, isGenerating, userInput, tokensPerSecond, pipes>>
    ELSE IF Trim(input) = << >> THEN
        /\ alert' = "Input Error"
        /\ UNCHANGED <<conversation, isGenerating, userInput, tokensPerSecond, pipes>>
    ELSE
        /\ Len(pipes) < MaxSubmits
        /\ CallsIssued < MaxCalls
        /\ conversation' = conversation \o
                <<Message("user", Trim(input)), Message("assistant", << >>)>>
        /\ userInput' = << >>
        /\ isGenerating' = TRUE
        /\ pipes' = Append(pipes, NewPipe(input))
        /\ UNCHANGED <<alert, tokensPerSecond>>

\* Faulty variant: the text is tested for emptiness without trimming it.
handleSendMessage_Untrimmed(input) ==
    IF ~llamaContext THEN
        /\ alert' = "LLM not ready"
        /\ UNCHANGED <<conversation, isGenerating, userInput, tokensPerSecond, pipes>>
    ELSE IF ~isRAGReady THEN
        /\ alert' = "RAG not ready"
        /\ UNCHANGED <<conversation, isGenerating, userInput, tokensPerSecond, pipes>>
    ELSE IF input = << >> THEN
        /\ alert' = "Input Error"
        /\ UNCHANGED <<conversation, isGenerating, userInput, tokensPerSecond, pipes>>
    ELSE
        /\ Len(pipes) < MaxSubmits
        /\ CallsIssued < MaxCalls
        /\ conversation' = conversation \o
                <<Message("user", input), Message("assistant", << >>)>>
        /\ userInput' = << >>
        /\ isGenerating' = TRUE
        /\ pipes' = Append(pipes, NewPipe(input))
        /\ UNCHANGED <<alert, tokensPerSecond>>

handleSendMessage(input) ==
    IF ~llamaContext THEN
        /\ alert' = "LLM not ready"
        /\ UNCHANGED <<conversation, isGenerating, userInput, tokensPerSecond, pipes>>
    ELSE IF ~isRAGReady THEN
        /\ alert' = "RAG not ready"
        /\ UNCHANGED <<conversation, isGenerating, userInput, tokensPerSecond, pipes>>
    ELSE IF Trim(input) = << >> THEN
        /\ alert' = "Input Error"
        /\ UNCHANGED <<conversation, isGenerating, userInput, tokensPerSecond, pipes>>
    ELSE
        /\ Len(pipes) < MaxSubmits
        /\ CallsIssued < MaxCalls
        /\ conversation' = conversation \o
                <<Message("user", input), Message("assistant", << >>)>>
        /\ userInput' = << >>
        /\ isGenerating' = TRUE
        /\ pipes' = Append(pipes, NewPipe(input))
        /\ UNCHANGED <<alert, tokensPerSecond>>

\* useEffect(() => { sendInitialMessage() }, []): runs once after mount.
sendInitialMessage ==
    /\ ~mounted
    /\ mounted' = TRUE
    /\ \E initialMessage \in Texts :
          IF initialMessage # << >>
          THEN handleSendMessage(initialMessage)
          ELSE UNCHANGED <<conversation, isGenerating, userInput,
                           tokensPerSecond, alert, pipes>>
    /\ UNCHANGED <<llamaContext, isRAGReady, stopCalls, stopsPressed>>
    /\ UNCHANGED <<service, search>>

\* What ChatScreen renders for the user to act on: the text field is
\* editable={!isGenerating}, and the button is Send (disabled={isGenerating})
\* when !isGenerating and Stop otherwise.
\* Faulty variant: the Send control and the text field stay enabled while
\* generating.
SendEnabled_Always == TRUE

SendEnabled == ~isGenerating

StopEnabled == isGenerating

\* TextInput onChangeText={setUserInput} editable={!isGenerating}
onChangeText ==
    /\ mounted
    /\ SendEnabled
    /\ \E text \in Texts : userInput' = text /\ text # userInput
    /\ UNCHANGED <<llamaContext, isRAGReady, mounted, conversation, isGenerating,
                   tokensPerSecond, alert, pipes, stopCalls, stopsPressed>>
    /\ UNCHANGED <<service, search>>

\* The Send control: rendered (and enabled) only while !isGenerating;
\* onPress={() => handleSendMessage()} so the input is userInput.
SendPress ==
    /\ mounted
    /\ SendEnabled
    /\ handleSendMessage(userInput)
    /\ UNCHANGED <<llamaContext, isRAGReady, mounted, stopCalls, stopsPressed>>
    /\ UNCHANGED <<service, search>>

\* ------------------------------------------- the awaits of handleSendMessage
SetPipe(i, p) == [pipes EXCEPT ![i] = p]

\* A call that has returned keeps only how it returned and what it had
\* done: its closure (base, currentAssistantMessage) is released.
Returned(p, error) ==
    [p EXCEPT !.pc = "returned", !.error = error, !.base = << >>, !.cam = << >>]

\* await embeddingContext.embedding(finalInput) resolves
EmbeddingResolve(i) ==
    /\ pipes[i].pc = "embedding"
    /\ CallsIssued < MaxCalls
    /\ pipes' = SetPipe(i, [pipes[i] EXCEPT !.pc = "search"])
    /\ UNCHANGED <<llamaContext, isRAGReady, mounted, conversation, isGenerating,
                   userInput, tokensPerSecond, alert, stopCalls, stopsPressed>>
    /\ UNCHANGED <<service, search>>

\* ... or throws: alert, setIsGenerating(false), return
EmbeddingReject(i) ==
    /\ pipes[i].pc = "embedding"
    /\ pipes' = SetPipe(i, Returned(pipes[i], "embedding"))
    /\ alert' = "Embedding error"
    /\ isGenerating' = FALSE
    /\ UNCHANGED <<llamaContext, isRAGReady, mounted, conversation,
                   userInput, tokensPerSecond, stopCalls, stopsPressed>>
    /\ UNCHANGED <<service, search>>

\* await RAGService.searchSimilar(...) resolves: the prompt is built and
\* llamaContext.completion is called.
SearchResolve(i) ==
    /\ pipes[i].pc = "search"
    /\ CallsIssued < MaxCalls
    /\ \E ragResults \in RagResults :
          pipes' = SetPipe(i, [pipes[i] EXCEPT
                      !.pc = "completion",
                      !.messages = messagesForLlama(pipes[i].base, ragResults,
                                                    pipes[i].finalInput)])
    /\ UNCHANGED <<llamaContext, isRAGReady, mounted, conversation, isGenerating,
                   userInput, tokensPerSecond, alert, stopCalls, stopsPressed>>
    /\ UNCHANGED <<service, search>>

\* Faulty variant: the catch block of the search returns without
\* setIsGenerating(false).
SearchReject_StillGenerating(i) ==
    /\ pipes[i].pc = "search"
    /\ pipes' = SetPipe(i, Returned(pipes[i], "search"))
    /\ UNCHANGED <<llamaContext, isRAGReady, mounted, conversation, isGenerating,
                   userInput, tokensPerSecond, alert, stopCalls, stopsPressed>>
    /\ UNCHANGED <<service, search>>

\* Faulty variant: the catch block of the search does not return and the
\* completion is called with no documents.
SearchReject_NoReturn(i) ==
    /\ pipes[i].pc = "search"
    /\ pipes' = SetPipe(i, [pipes[i] EXCEPT
                    !.pc = "completion", !.error = "search",
                    !.messages = messagesForLlama(pipes[i].base, << >>,
                                                  pipes[i].finalInput)])
    /\ isGenerating' = FALSE
    /\ UNCHANGED <<llamaContext, isRAGReady, mounted, conversation,
                   userInput, tokensPerSecond, alert, stopCalls, stopsPressed>>
    /\ UNCHANGED <<service, search>>

\* ... or throws: setIsGenerating(false), return
SearchReject(i) ==
    /\ pipes[i].pc = "search"
    /\ pipes' = SetPipe(i, Returned(pipes[i], "search"))
    /\ isGenerating' = FALSE
    /\ UNCHANGED <<llamaContext, isRAGReady, mounted, conversation,
                   userInput, tokensPerSecond, alert, stopCalls, stopsPressed>>
    /\ UNCHANGED <<service, search>>

\* Faulty variant: the fragment is written to the last entry whatever its role.
ApplyToken_AnyRole(prevConversation, currentAssistantMessage) ==
    LET lastIndex == Len(prevConversation) IN
    IF lastIndex >= 1
    THEN [prevConversation EXCEPT ![lastIndex].content = Trim(currentAssistantMessage)]
    ELSE prevConversation

\* Faulty variant: the accumulated text is stored without .trim().
ApplyToken_Untrimmed(prevConversation, currentAssistantMessage) ==
    LET lastIndex == Len(prevConversation) IN
    IF lastIndex >= 1 /\ prevConversation[lastIndex].role = "assistant"
    THEN [prevConversation EXCEPT ![lastIndex].content = currentAssistantMessage]
    ELSE prevConversation

\* The partial-completion callback of llamaContext.completion.
ApplyToken(prevConversation, currentAssistantMessage) ==
    LET lastIndex == Len(prevConversation) IN
    IF lastIndex >= 1 /\ prevConversation[lastIndex].role = "assistant"
    THEN [prevConversation EXCEPT ![lastIndex].content = Trim(currentAssistantMessage)]
    ELSE prevConversation

RECURSIVE SumTokens(_)
SumTokens(ps) ==
    IF ps = << >> THEN 0 ELSE Head(ps).ntok + SumTokens(Tail(ps))

\* token callbacks delivered so far, over all completions
TokensStreamed == SumTokens(pipes)

\* Faulty variant: a fragment that arrives while a stopCompletion call is
\* pending is not written to the transcript.
OnToken_CutAtStop(i) ==
    /\ pipes[i].pc = "completion"
    /\ TokensStreamed < MaxTokens
    /\ \E token \in Tokens :
          LET cam == pipes[i].cam \o token IN
          /\ pipes' = SetPipe(i, [pipes[i] EXCEPT !.cam = cam, !.ntok = @ + 1])
          /\ conversation' = IF stopCalls > 0 THEN conversation
                             ELSE ApplyToken(conversation, cam)
    /\ UNCHANGED <<llamaContext, isRAGReady, mounted, isGenerating,
                   userInput, tokensPerSecond, alert, stopCalls, stopsPressed>>
    /\ UNCHANGED <<service, search>>

OnToken(i) ==
    /\ pipes[i].pc = "completion"
    /\ TokensStreamed < MaxTokens
    /\ \E token \in Tokens :
          LET cam == pipes[i].cam \o token IN
          /\ pipes' = SetPipe(i, [pipes[i] EXCEPT !.cam = cam, !.ntok = @ + 1])
          /\ conversation' = ApplyToken(conversation, cam)
    /\ UNCHANGED <<llamaContext, isRAGReady, mounted, isGenerating,
                   userInput, tokensPerSecond, alert, stopCalls, stopsPressed>>
    /\ UNCHANGED <<service, search>>

\* await llamaContext.completion(...) resolves: record the throughput;
\* finally setIsGenerating(false)
CompletionResolve(i) ==
    /\ pipes[i].pc = "completion"
    /\ \E rate \in Rates :
          tokensPerSecond' = Append(tokensPerSecond, ToFixed2(rate))
    /\ pipes' = SetPipe(i, Returned(pipes[i], "none"))
    /\ isGenerating' = FALSE
    /\ UNCHANGED <<llamaContext, isRAGReady, mounted, conversation,
                   userInput, alert, stopCalls, stopsPressed>>
    /\ UNCHANGED <<service, search>>

\* Faulty variant: the throughput is recorded in the finally block, so a
\* failed completion records one too.
CompletionReject_Records(i) ==
    /\ pipes[i].pc = "completion"
    /\ pipes' = SetPipe(i, Returned(pipes[i], "inference"))
    /\ alert' = "Inference error"
    /\ conversation' = SliceDropLast(conversation)
    /\ \E rate \in Rates :
          tokensPerSecond' = Append(tokensPerSecond, ToFixed2(rate))
    /\ isGenerating' = FALSE
    /\ UNCHANGED <<llamaContext, isRAGReady, mounted,
                   userInput, stopCalls, stopsPressed>>
    /\ UNCHANGED <<service, search>>

\* ... or throws: alert, setConversation(prev => prev.slice(0, -1));
\* finally setIsGenerating(false)
CompletionReject(i) ==
    /\ pipes[i].pc = "completion"
    /\ pipes' = SetPipe(i, Returned(pipes[i], "inference"))
    /\ alert' = "Inference error"
    /\ conversation' = SliceDropLast(conversation)
    /\ isGenerating' = FALSE
    /\ UNCHANGED <<llamaContext, isRAGReady, mounted,
                   userInput, tokensPerSecond, stopCalls, stopsPressed>>
    /\ UNCHANGED <<service, search>>

\* ---------------------------------------------------------- stopGeneration
\* The Stop control: rendered only while isGenerating; stopGeneration runs
\* up to await llamaContext.stopCompletion().
StopPress ==
    /\ mounted
    /\ StopEnabled
    /\ stopsPressed < MaxStops
    /\ CallsIssued < MaxCalls
    /\ stopsPressed' = stopsPressed + 1
    /\ stopCalls' = stopCalls + 1
    /\ UNCHANGED <<llamaContext, isRAGReady, mounted, conversation, isGenerating,
                   userInput, tokensPerSecond, alert, pipes>>
    /\ UNCHANGED <<service, search>>

AppendStopMarker(prev) ==
    LET lastMessage == prev[Len(prev)] IN
    IF lastMessage.role = "assistant"
    THEN Append(SliceDropLast(prev),
                [lastMessage EXCEPT !.content = lastMessage.content \o StopMarker])
    ELSE prev

\* stopCompletion() resolves: setIsGenerating(false), then the marker
StopResolve ==
    /\ stopCalls > 0
    /\ stopCalls' = stopCalls - 1
    /\ UNCHANGED stopsPressed
    /\ isGenerating' = FALSE
    /\ conversation' = AppendStopMarker(conversation)
    /\ UNCHANGED <<llamaContext, isRAGReady, mounted,
                   userInput, tokensPerSecond, alert, pipes>>
    /\ UNCHANGED <<service, search>>

\* stopCompletion() throws: catch (error) { console.error(...) }
StopReject ==
    /\ stopCalls > 0
    /\ stopCalls' = stopCalls - 1
    /\ UNCHANGED stopsPressed
    /\ UNCHANGED <<llamaContext, isRAGReady, mounted, conversation, isGenerating,
                   userInput, tokensPerSecond, alert, pipes>>
    /\ UNCHANGED <<service, search>>

\* ----------------------------------------------------------- specification
\* The steps of ChatScreen; none of them calls RAGService.initialize().
Next ==
    \/ sendInitialMessage
    \/ onChangeText
    \/ SendPress
    \/ \E i \in 1..Len(pipes) : EmbeddingResolve(i)
    \/ \E i \in 1..Len(pipes) : EmbeddingReject(i)
    \/ \E i \in 1..Len(pipes) : SearchResolve(i)
    \/ \E i \in 1..Len(pipes) : SearchReject(i)
    \/ \E i \in 1..Len(pipes) : OnToken(i)
    \/ \E i \in 1..Len(pipes) : CompletionResolve(i)
    \/ \E i \in 1..Len(pipes) : CompletionReject(i)
    \/ StopPress
    \/ StopResolve
    \/ StopReject

Spec == Init /\ [][Next]_vars

\* Every call handed to a backend (embedding, searchSimilar, completion,
\* stopCompletion) eventually settles, one way or the other.
Settle ==
    \/ \E i \in 1..Len(pipes) :
          \/ EmbeddingResolve(i) \/ EmbeddingReject(i)
          \/ SearchResolve(i) \/ SearchReject(i)
          \/ CompletionResolve(i) \/ CompletionReject(i)
    \/ StopResolve
    \/ StopReject

FairSpec == Spec /\ WF_vars(Settle)

\* ================================================== RAGService.initialize
\* A caller record holds pc, where the initialize() call stands ("idle":
\* not made yet; "polling": in the while (this.isInitializing) loop;
\* "open", "count", "sample": suspended in initializeDatabase or in one of
\* the two queries of validateDatabase; "hung": suspended on a promise that
\* is never settled; "returned": over), and ret, how it
\* returned ("immediate": at if (this.isInitialized); "waited": after the
\* polling loop; "initialized": after running the steps; "threw": with the
\* error of a failed step; "none": not yet).
SetCaller(c, pc, ret) == [callers EXCEPT ![c] = [pc |-> pc, ret |-> ret]]

\* Faulty variant: no if (this.isInitializing) branch.
initialize_NoWait(c) ==
    /\ callers[c].pc = "idle"
    /\ IF isInitialized THEN
           /\ callers' = SetCaller(c, "returned", "immediate")
           /\ UNCHANGED <<db, isInitialized, isInitializing>>
       ELSE
           /\ isInitializing' = TRUE
           /\ db' = "handle"
           /\ callers' = SetCaller(c, "open", "none")
           /\ UNCHANGED isInitialized
    /\ UNCHANGED <<chat, search>>

\* Faulty variant: no if (this.isInitialized) return.
initialize_NoReturn(c) ==
    /\ callers[c].pc = "idle"
    /\ IF isInitializing THEN
           /\ callers' = SetCaller(c, "polling", "none")
           /\ UNCHANGED <<db, isInitialized, isInitializing>>
       ELSE
           /\ isInitializing' = TRUE
           /\ db' = "handle"
           /\ callers' = SetCaller(c, "open", "none")
           /\ UNCHANGED isInitialized
    /\ UNCHANGED <<chat, search>>

\* initialize() up to its first await: the two early exits, or
\* this.isInitializing = true and initializeDatabase() up to the pending
\* openDatabase (whose return value is assigned to this.db at once).
initialize(c) ==
    /\ callers[c].pc = "idle"
    /\ IF isInitialized THEN
           /\ callers' = SetCaller(c, "returned", "immediate")
           /\ UNCHANGED <<db, isInitialized, isInitializing>>
       ELSE IF isInitializing THEN
           /\ callers' = SetCaller(c, "polling", "none")
           /\ UNCHANGED <<db, isInitialized, isInitializing>>
       ELSE
           /\ isInitializing' = TRUE
           /\ db' = "handle"
           /\ callers' = SetCaller(c, "open", "none")
           /\ UNCHANGED isInitialized
    /\ UNCHANGED <<chat, search>>

\* while (this.isInitializing) await new Promise(r => setTimeout(r, 50));
\* return;  -- one expiry of the timer
PollTimer(c) ==
    /\ callers[c].pc = "polling"
    /\ IF isInitializing
       THEN UNCHANGED callers
       ELSE callers' = SetCaller(c, "returned", "waited")
    /\ UNCHANGED <<db, isInitialized, isInitializing>>
    /\ UNCHANGED <<chat, search>>

\* openDatabase's success callback: initializeDatabase resolves and
\* validateDatabase issues its first query, this.db.executeSql(...); with
\* this.db null (closed meanwhile) that throws inside the promise, which
\* rejects: catch rethrows, finally this.isInitializing = false.
OpenResolve(c) ==
    /\ callers[c].pc = "open"
    /\ IF db = "null"
       THEN /\ isInitializing' = FALSE
            /\ callers' = SetCaller(c, "returned", "threw")
       ELSE /\ callers' = SetCaller(c, "count", "none")
            /\ UNCHANGED isInitializing
    /\ UNCHANGED <<db, isInitialized>>
    /\ UNCHANGED <<chat, search>>

\* Faulty variant: no finally { this.isInitializing = false }.
StepReject_NoFinally(c) ==
    /\ callers[c].pc \in {"open", "count", "sample"}
    /\ callers' = SetCaller(c, "returned", "threw")
    /\ UNCHANGED <<db, isInitialized, isInitializing>>
    /\ UNCHANGED <<chat, search>>

\* The error callback of openDatabase or of either query: the awaited step
\* rejects; catch rethrows, finally this.isInitializing = false.
StepReject(c) ==
    /\ callers[c].pc \in {"open", "count", "sample"}
    /\ isInitializing' = FALSE
    /\ callers' = SetCaller(c, "returned", "threw")
    /\ UNCHANGED <<db, isInitialized>>
    /\ UNCHANGED <<chat, search>>

\* the first query's success callback issues the second query,
\* this.db.executeSql(...); with this.db null (closed meanwhile) that throws
\* inside the callback, and the promise of validateDatabase is never
\* settled: the call stays suspended for good ("hung").
CountResolve(c) ==
    /\ callers[c].pc = "count"
    /\ callers' = SetCaller(c, IF db = "null" THEN "hung" ELSE "sample", "none")
    /\ UNCHANGED <<db, isInitialized, isInitializing>>
    /\ UNCHANGED <<chat, search>>

\* the second query's success callback resolves validateDatabase:
\* this.isInitialized = true; finally this.isInitializing = false
SampleResolve(c) ==
    /\ callers[c].pc = "sample"
    /\ isInitialized' = TRUE
    /\ isInitializing' = FALSE
    /\ callers' = SetCaller(c, "returned", "initialized")
    /\ UNCHANGED db
    /\ UNCHANGED <<chat, search>>

\* ChatScreen is not there yet: HomeScreen has not set the model context.
BeforeChatScreen ==
    /\ llamaContext = FALSE
    /\ isRAGReady = FALSE
    /\ mounted = FALSE
    /\ conversation = INITIAL_CONVERSATION
    /\ isGenerating = FALSE
    /\ userInput = << >>
    /\ tokensPerSecond = << >>
    /\ alert = ""
    /\ pipes = << >>
    /\ stopCalls = 0
    /\ stopsPressed = 0

ServiceInit ==
    /\ BeforeChatScreen
    /\ constructor
    /\ SearchOfChatScreen
    /\ NoEmbedder

\* The steps of the service before ChatScreen exists.
ServiceNext ==
    \/ \E c \in Callers : initialize(c)
    \/ \E c \in Callers : PollTimer(c)
    \/ \E c \in Callers : OpenResolve(c)
    \/ \E c \in Callers : StepReject(c)
    \/ \E c \in Callers : CountResolve(c)
    \/ \E c \in Callers : SampleResolve(c)

ServiceSpec == ServiceInit /\ [][ServiceNext]_vars

\* Every step of an initialization (openDatabase, the two queries) settles
\* in the end, one way or the other.
StepsSettle ==
    \E c \in Callers :
        OpenResolve(c) \/ StepReject(c) \/ CountResolve(c) \/ SampleResolve(c)

\* The steps settle, and the timer of a polling caller expires again and
\* again.
FairServiceSpec ==
    /\ ServiceSpec
    /\ WF_vars(StepsSettle)
    /\ \A c \in Callers : WF_vars(PollTimer(c))

\* ============================================ searchSimilar, retrieval, close
\* Faulty variant: no if (!this.isInitialized) throw.
searchSimilar_Unguarded ==
    /\ call.pc \in {"idle", "searched", "done"}
    /\ searchResults' = << >>
    /\ outcome' = NoOutcome
    /\ IF call.embedding = << >>
       THEN call' = [call EXCEPT !.pc = "done", !.error = "InvalidEmbedding"]
       ELSE IF db = "null"
       THEN call' = [call EXCEPT !.pc = "done", !.error = "TypeError"]
       ELSE call' = [call EXCEPT !.pc = "query", !.error = "none"]
    /\ UNCHANGED documents
    /\ UNCHANGED <<chat, service, embedder>>

\* searchSimilar (and retrieval, which starts by calling it) up to the await
\* of performSimilaritySearch: the two guards, then this.db.executeSql(...)
\* inside the promise, which throws a TypeError when this.db is null.
searchSimilar ==
    /\ call.pc \in {"idle", "searched", "done"}
    /\ searchResults' = << >>
    /\ outcome' = NoOutcome
    /\ IF ~isInitialized
       THEN call' = [call EXCEPT !.pc = "done", !.error = "NotInitialized"]
       ELSE IF call.embedding = << >>
       THEN call' = [call EXCEPT !.pc = "done", !.error = "InvalidEmbedding"]
       ELSE IF db = "null"
       THEN call' = [call EXCEPT !.pc = "done", !.error = "TypeError"]
       ELSE call' = [call EXCEPT !.pc = "query", !.error = "none"]
    /\ UNCHANGED documents
    /\ UNCHANGED <<chat, service, embedder>>

\* the success callback of the SELECT: scan, sort, slice, resolve
QueryResolve ==
    /\ call.pc = "query"
    /\ searchResults' = performSimilaritySearch(documents, call.embedding, call.topK,
                                                call.threshold, call.collectionName)
    /\ call' = [call EXCEPT !.pc = "searched"]
    /\ UNCHANGED <<documents, outcome>>
    /\ UNCHANGED <<chat, service, embedder>>

\* the error callback of the SELECT: reject(error); searchSimilar rethrows
QueryReject ==
    /\ call.pc = "query"
    /\ call' = [call EXCEPT !.pc = "done", !.error = "sql"]
    /\ UNCHANGED <<documents, searchResults, outcome>>
    /\ UNCHANGED <<chat, service, embedder>>

\* retrieval after its await this.searchSimilar(...): build the context
\* and return
retrieval ==
    /\ call.pc = "searched"
    /\ outcome' = RetrievalOutcome(searchResults, call.maxContextLength)
    /\ call' = [call EXCEPT !.pc = "done"]
    /\ UNCHANGED <<documents, searchResults>>
    /\ UNCHANGED <<chat, service, embedder>>

\* close(): if (this.db) { this.db.close(); this.db = null; }
\* this.isInitialized = false.  A call whose initialization is closed by
\* this is marked: its ret becomes "closed".
close ==
    /\ db' = "null"
    /\ isInitialized' = FALSE
    /\ callers' = [c \in Callers |->
                     IF callers[c].ret = "initialized"
                     THEN [callers[c] EXCEPT !.ret = "closed"]
                     ELSE callers[c]]
    /\ UNCHANGED isInitializing
    /\ UNCHANGED <<chat, search>>

\* The service with every entry point: initialize, searchSimilar, retrieval
\* and close called in any order.
FacadeNext ==
    \/ \E c \in Callers : initialize(c)
    \/ \E c \in Callers : PollTimer(c)
    \/ \E c \in Callers : OpenResolve(c)
    \/ \E c \in Callers : StepReject(c)
    \/ \E c \in Callers : CountResolve(c)
    \/ \E c \in Callers : SampleResolve(c)
    \/ close
    \/ searchSimilar
    \/ QueryResolve
    \/ QueryReject
    \/ retrieval

FacadeSpec == ServiceInit /\ [][FacadeNext]_vars

\* An initialized service, any table, any arguments.
RetrievalInit ==
    /\ BeforeChatScreen
    /\ db = "handle"
    /\ isInitialized = TRUE
    /\ isInitializing = FALSE
    /\ callers = [c \in Callers |-> [pc |-> "idle", ret |-> "none"]]
    /\ documents \in Tables
    /\ call \in SearchCalls
    /\ searchResults = << >>
    /\ outcome = NoOutcome
    /\ NoEmbedder

RetrievalNext ==
    \/ searchSimilar
    \/ QueryResolve
    \/ QueryReject
    \/ retrieval

RetrievalSpec == RetrievalInit /\ [][RetrievalNext]_vars

\* =============================================================== embedText
\* embedText up to its await: the guard on session and tokenizer, then
\* session.run(feeds)
embedText ==
    /\ embedded.pc \in {"idle", "done"}
    /\ IF ~session
       THEN embedded' = [NotEmbedded EXCEPT !.pc = "done", !.error = "NotInitialised"]
       ELSE embedded' = [NotEmbedded EXCEPT !.pc = "run"]
    /\ UNCHANGED <<session, tensor>>
    /\ UNCHANGED <<chat, service, documents, call, searchResults, outcome>>

\* session.run resolves with the tensor: pool, normalise, return
RunResolve ==
    /\ embedded.pc = "run"
    /\ embedded' = [embedded EXCEPT !.pc = "done",
                                    !.vector = L2Normalise(Pooled(tensor))]
    /\ UNCHANGED <<session, tensor>>
    /\ UNCHANGED <<chat, service, documents, call, searchResults, outcome>>

\* session.run rejects: embedText throws what it threw
RunReject ==
    /\ embedded.pc = "run"
    /\ embedded' = [embedded EXCEPT !.pc = "done", !.error = "session.run"]
    /\ UNCHANGED <<session, tensor>>
    /\ UNCHANGED <<chat, service, documents, call, searchResults, outcome>>

\* An embedder, loaded or not, and any output of its model.
EmbedderInit ==
    /\ BeforeChatScreen
    /\ constructor
    /\ SearchOfChatScreen
    /\ session \in BOOLEAN
    /\ tensor \in Tensors
    /\ embedded = NotEmbedded

EmbedderNext ==
    \/ embedText
    \/ RunResolve
    \/ RunReject

EmbedderSpec == EmbedderInit /\ [][EmbedderNext]_vars

\* ================================================================= claims
Last(a) == a[Len(a)]

\* handleSendMessage calls that are past their guards and have not returned
InFlight == {i \in 1..Len(pipes) : pipes[i].pc # "returned"}

\* occurrences of the stop marker in a content
RECURSIVE MarkerCount(_)
MarkerCount(c) ==
    IF c = << >> THEN 0
    ELSE (IF Head(c) = StopMarker[Len(StopMarker)] THEN 1 ELSE 0) + MarkerCount(Tail(c))

\* pipe i returns in this step through the catch block named error
Fails(i, error) ==
    /\ i \in InFlight
    /\ pipes'[i].pc = "returned"
    /\ pipes'[i].error = error

\* C1: at most one generation pipeline (a handleSendMessage call that has
\* not yet resolved, failed or finished) is in flight at any time.
C1_AtMostOneInFlight == Cardinality(InFlight) <= 1

C3_PartialAnswerKept ==
    [][\A i \in 1..Len(pipes) :
          (/\ Fails(i, "inference")
           /\ pipes[i].ntok > 0
           /\ Last(conversation).role = "assistant"
           /\ Last(conversation).content # << >>)
          => (conversation' = conversation /\ isGenerating' = FALSE)]_vars

\* C4: when the completion call fails before any token fragment was
\* streamed, the transcript becomes the pre-submission transcript followed
\* by the new user turn only, and isGenerating becomes false.
C4_EmptyPlaceholderRemoved ==
    [][\A i \in 1..Len(pipes) :
          (Fails(i, "inference") /\ pipes[i].ntok = 0)
          => (/\ conversation' = Append(pipes[i].base,
                                        Message("user", pipes[i].finalInput))
              /\ isGenerating' = FALSE)]_vars

\* C5: when the embedding step or the similarity search of a submission
\* fails, the placeholder assistant turn is removed from the transcript and
\* isGenerating becomes false.
C5_RetrievalFailureRollsBack ==
    [][\A i \in 1..Len(pipes) :
          (Fails(i, "embedding") \/ Fails(i, "search"))
          => (/\ Last(conversation).role = "assistant"
              /\ conversation' = SliceDropLast(conversation)
              /\ isGenerating' = FALSE)]_vars

\* C6: a submission whose embedding step or similarity search failed never
\* has the completion call issued for it.
C6_NoCompletionAfterRetrievalFailure ==
    \A i \in 1..Len(pipes) :
        pipes[i].error \in {"embedding", "search"} => pipes[i].messages = << >>

\* both failures have happened, and another submission did reach the completion
C6_Witness ==
    /\ \E i \in 1..Len(pipes) : pipes[i].error = "search"
    /\ \E i \in 1..Len(pipes) : pipes[i].messages # << >>

\* C7: when stopCompletion raises, stopGeneration still sets isGenerating
\* to false and appends the stop marker to the in-progress assistant turn.
C7_StopErrorStillStops ==
    [][StopReject =>
          /\ isGenerating' = FALSE
          /\ conversation' = AppendStopMarker(conversation)]_vars

\* C8: whatever the number of Stop presses and the interleaving, once a
\* stopCompletion call has settled mid-stream (the completion call is still
\* pending) the in-progress assistant turn holds the stop marker exactly
\* once and isGenerating is false.
C8_MarkerExactlyOnce ==
    [][(/\ StopResolve
        /\ \E i \in InFlight : pipes[i].pc = "completion"
        /\ Last(conversation).role = "assistant")
       => (/\ MarkerCount(Last(conversation').content) = 1
           /\ isGenerating' = FALSE)]_vars

\* C9: when the generation has already completed (isGenerating is false,
\* every submission has returned from a resolved completion) at the time
\* the stopCompletion call settles, the transcript is left unchanged.
C9_StopAfterCompletionIsNoOp ==
    [][(/\ ~isGenerating
        /\ InFlight = {}
        /\ \A i \in 1..Len(pipes) : pipes[i].error = "none"
        /\ stopCalls' < stopCalls)
       => conversation' = conversation]_vars

\* C10: an accepted submission appends exactly the user turn with the
\* original text and an empty assistant turn, changes no earlier entry, and
\* has set isGenerating while its first call (the embedding) is pending and
\* no other call has moved.
C10_SubmitAppendsTwoTurns ==
    [][Len(pipes') # Len(pipes) =>
          LET p == pipes'[Len(pipes')] IN
          /\ Len(pipes') = Len(pipes) + 1
          /\ mounted => p.finalInput = userInput
          /\ Trim(p.finalInput) # << >>
          /\ conversation' = conversation \o
                <<Message("user", p.finalInput), Message("assistant", << >>)>>
          /\ isGenerating' = TRUE
          /\ p.pc = "embedding" /\ p.messages = << >>
          /\ p.base = conversation
          /\ \A j \in 1..Len(pipes) : pipes'[j] = pipes[j]
          /\ tokensPerSecond' = tokensPerSecond]_vars

\* a second submission has just been accepted, after a first one was answered
C10_Witness ==
    /\ Len(pipes) = 2
    /\ pipes[2].pc = "embedding"
    /\ isGenerating
    /\ Len(conversation) = 5
    /\ conversation[3].content # << >>
    /\ conversation[4] = Message("user", <<"a", " ">>)
    /\ conversation[5] = Message("assistant", << >>)

\* the alerts handleSendMessage raises when it turns a call down
RejectAlerts == {"LLM not ready", "RAG not ready", "Input Error"}

\* C11: when the language-model backend or the retrieval service is not
\* ready, or the effective text is empty or whitespace-only, the submission
\* is rejected with no state change: a step that raises a rejection alert
\* leaves the transcript, isGenerating, the throughput list, the text field
\* and every backend call as they were; no step taken while a backend is
\* not ready starts a pipeline or touches the transcript; and a step that
\* presses Send on a blank text field starts none either.
C11_RejectedWithoutStateChange ==
    [][/\ (alert' \in RejectAlerts /\ alert' # alert)
            => UNCHANGED <<conversation, isGenerating, tokensPerSecond,
                           userInput, pipes, stopCalls>>
       /\ (~llamaContext \/ ~isRAGReady)
            => UNCHANGED <<conversation, isGenerating, tokensPerSecond, pipes>>
       /\ (mounted /\ Trim(userInput) = << >>)
            => /\ Len(pipes') = Len(pipes)
               /\ Len(conversation') <= Len(conversation)
       /\ Len(pipes') # Len(pipes)
            => Trim(pipes'[Len(pipes')].finalInput) # << >>]_vars

\* a whitespace-only text was turned down after an earlier submission was
\* answered, and the answered exchange is still all the transcript holds
C11_Witness ==
    /\ alert = "Input Error"
    /\ userInput = <<" ">>
    /\ Len(pipes) = 1
    /\ pipes[1].pc = "returned" /\ pipes[1].error = "none"
    /\ Len(conversation) = 3
    /\ ~isGenerating

\* the token callback of pipe i runs in this step
TokenStep(i) == pipes'[i].ntok > pipes[i].ntok

\* C12: the token callback never changes the length or order of the
\* transcript nor any entry other than the last one; it changes only the
\* content of the last entry, and only when that entry's role is assistant:
\* otherwise the fragment is dropped and the transcript is unchanged.
C12_TokenCallbackFrame ==
    [][\A i \in 1..Len(pipes) : TokenStep(i) =>
          /\ Len(conversation') = Len(conversation)
          /\ \A k \in 1..(Len(conversation) - 1) : conversation'[k] = conversation[k]
          /\ Last(conversation').role = Last(conversation).role
          /\ Last(conversation).role # "assistant" => conversation' = conversation]_vars

\* a generation that has emitted "H" is still streaming while the last
\* entry is a user turn (a rollback removed the placeholder), and no entry
\* of the transcript holds the fragment
C12_Witness ==
    /\ Last(conversation).role = "user"
    /\ \E i \in InFlight : pipes[i].pc = "completion" /\ pipes[i].cam = <<"H">>
    /\ \A k \in 1..Len(conversation) :
          conversation[k].role = "user" => conversation[k].content = <<"a", " ">>
    /\ \A k \in 1..Len(conversation) :
          conversation[k].role = "assistant" => conversation[k].content = << >>

\* C13 as stated: after each token callback of a generation that has
\* emitted f1..fn, the content of the last (assistant) entry equals the
\* concatenation f1 + ... + fn.
C13_ContentIsConcatenation ==
    [][\A i \in 1..Len(pipes) :
          (TokenStep(i) /\ Last(conversation).role = "assistant")
          => Last(conversation').content = pipes'[i].cam]_vars

\* C13 amended: after each token callback of a generation that has emitted
\* f1..fn, the content of the last (assistant) entry equals the
\* concatenation f1 + ... + fn in emission order with its leading and
\* trailing whitespace removed.
C13_ContentIsTrimmedConcatenation ==
    [][\A i \in 1..Len(pipes) :
          (TokenStep(i) /\ Last(conversation).role = "assistant")
          => /\ pipes'[i].cam \in {pipes[i].cam \o token : token \in Tokens}
             /\ Last(conversation').content = Trim(pipes'[i].cam)]_vars

\* "H" then " " were emitted: the assistant turn shows "H"
C13_Witness ==
    /\ \E i \in InFlight : pipes[i].cam = <<"H", " ">> /\ pipes[i].ntok = 2
    /\ Last(conversation) = Message("assistant", <<"H">>)
    /\ Len(pipes) = 1

\* handleSendMessage calls whose completion call resolved
Completed == {i \in 1..Len(pipes) : pipes[i].pc = "returned" /\ pipes[i].error = "none"}

\* C14: when the completion call resolves, exactly one throughput value is
\* appended to tokensPerSecond and isGenerating becomes false; no other
\* step (rejection, failure, cancel) changes tokensPerSecond, so its length
\* equals the number of generations whose completion call resolved.
C14_ThroughputPerCompletion ==
    [][/\ \A i \in InFlight : (pipes'[i].pc = "returned" /\ pipes'[i].error = "none")
            => /\ Len(tokensPerSecond') = Len(tokensPerSecond) + 1
               /\ SubSeq(tokensPerSecond', 1, Len(tokensPerSecond)) = tokensPerSecond
               /\ isGenerating' = FALSE
       /\ tokensPerSecond' # tokensPerSecond
            => \E i \in InFlight : pipes'[i].pc = "returned" /\ pipes'[i].error = "none"
       /\ Len(tokensPerSecond') = Cardinality(Completed')]_vars

\* two submissions are over, one completed and one failed in the completion
\* call, and one throughput value is recorded
C14_Witness ==
    /\ Len(pipes) = 2
    /\ InFlight = {}
    /\ \E i \in 1..2 : pipes[i].error = "inference"
    /\ Len(tokensPerSecond) = 1

\* C15: provided every external call eventually settles, whenever
\* isGenerating is true (so after any failure of a submitted generation
\* that left it true, a failed stopCompletion included) it eventually
\* becomes false; it then stays false until a submission is accepted; and
\* while it is false, the backends are ready and the text field holds
\* valid text, pressing Send starts a new pipeline.
C15_FailureLeavesRetryable ==
    /\ isGenerating ~> ~isGenerating
    /\ [][(~isGenerating /\ isGenerating') => Len(pipes') = Len(pipes) + 1]_vars
    /\ [](( /\ ~isGenerating /\ mounted /\ llamaContext /\ isRAGReady
            /\ Trim(userInput) # << >>
            /\ Len(pipes) < MaxSubmits /\ CallsIssued < MaxCalls)
          => ENABLED (SendPress /\ Len(pipes') = Len(pipes) + 1))

\* a first submission failed and a second one has just been accepted
C15_Witness ==
    /\ Len(pipes) = 2
    /\ pipes[1].pc = "returned" /\ pipes[1].error # "none"
    /\ pipes[2].pc = "embedding"
    /\ isGenerating

\* the augmented texts the prompt template can make of a user text
AugmentedTexts(finalInput) ==
    {augmentedUserContent(ragResults, finalInput) : ragResults \in RagResults}

\* C16: the message list handed to the completion call of a submission is
\* the transcript as it was before the submission followed by one user turn
\* holding the template applied to the retrieved context and the original
\* text; the user turn stored in the transcript holds the original text,
\* and no entry of the stored transcript ever holds an augmented text.
C16_BackendGetsAugmentedTurn ==
    [][/\ \A i \in 1..Len(pipes) :
            (pipes[i].messages = << >> /\ pipes'[i].messages # << >>) =>
                LET m == pipes'[i].messages IN
                /\ Len(m) = Len(pipes[i].base) + 1
                /\ SubSeq(m, 1, Len(m) - 1) = pipes[i].base
                /\ Last(m).role = "user"
                /\ Last(m).content \in AugmentedTexts(pipes[i].finalInput)
       /\ Len(pipes') > Len(pipes) =>
            LET p == pipes'[Len(pipes')] IN
            /\ p.base = conversation
            /\ conversation'[Len(conversation) + 1] = Message("user", p.finalInput)
       /\ \A k \in 1..Len(conversation') : \A text \in Texts :
            conversation'[k].content \notin AugmentedTexts(text)]_vars

\* the completion call of a second submission was handed the first
\* exchange and an augmented turn built from a retrieved document
C16_Witness ==
    /\ Len(pipes) = 2
    /\ Len(pipes[2].messages) = 4
    /\ pipes[2].messages[3].role = "assistant"
    /\ pipes[2].messages[3].content # << >>
    /\ pipes[2].messages[4].content =
           augmentedUserContent(<< <<"d", " ">> >>, pipes[2].finalInput)
    /\ conversation[4] = Message("user", pipes[2].finalInput)

\* C17: the transcript is append-only apart from the most recent assistant
\* turn of a generation in flight: every step keeps each entry but the last
\* one as it is, and changes or removes the last one only if it is an
\* assistant turn and a generation is in flight.
C17_AppendOnlyButLastAssistant ==
    [][/\ \A k \in 1..(Len(conversation) - 1) :
            k <= Len(conversation') /\ conversation'[k] = conversation[k]
       /\ (Last(conversation).role # "assistant" \/ InFlight = {})
            => /\ Len(conversation') >= Len(conversation)
               /\ conversation'[Len(conversation)] = Last(conversation)]_vars

\* initialize() calls that are running the initialization steps
Running == {c \in Callers : callers[c].pc \in {"open", "count", "sample"}}

\* initialize() calls that returned in the way ret
ReturnedAs(ret) == {c \in Callers : callers[c].ret = ret}

\* caller c makes its initialize() call in this step
Calls(c) == callers[c].pc = "idle" /\ callers'[c].pc # "idle"

\* C18: while one initialize() call is running the initialization steps,
\* any other initialize() call made goes to the polling loop, leaves it
\* only when no call is running the steps, and then returns without having
\* run a step; the steps are never run by two calls at once, and at most
\* one more call has run them than calls have failed.
C18_OneInitializerAtATime ==
    [][/\ Cardinality(Running') <= 1
       /\ \A c \in Callers : (Calls(c) /\ Running # {}) => callers'[c].pc = "polling"
       /\ \A c \in Callers : callers[c].pc = "polling" =>
            \/ callers'[c] = callers[c]
            \/ /\ Running = {}
               /\ callers'[c] = [pc |-> "returned", ret |-> "waited"]
               /\ UNCHANGED <<db, isInitialized, isInitializing>>
       /\ Cardinality(Running' \cup ReturnedAs("initialized")' \cup ReturnedAs("threw")')
            <= Cardinality(ReturnedAs("threw")') + 1]_vars

\* one call ran the steps to success while another waited in the polling
\* loop and returned after it
C18_Witness ==
    /\ isInitialized
    /\ Cardinality(ReturnedAs("initialized")) = 1
    /\ ReturnedAs("waited") # {}
    /\ ReturnedAs("threw") = {}

\* C19: once the service is ready (isInitialized), every further
\* initialize() call returns at once, without running an initialization
\* step and leaving db, isInitialized and isInitializing as they are.
C19_InitializeIdempotent ==
    [][isInitialized =>
          \A c \in Callers : Calls(c) =>
                /\ callers'[c] = [pc |-> "returned", ret |-> "immediate"]
                /\ UNCHANGED <<db, isInitialized, isInitializing>>
                /\ Running' = {}]_vars

\* two calls made after the service became ready have returned at once
C19_Witness ==
    /\ isInitialized /\ ~isInitializing /\ db = "handle"
    /\ Cardinality(ReturnedAs("immediate")) = 2
    /\ Cardinality(ReturnedAs("initialized")) = 1

FacadeState ==
    IF isInitialized THEN "Ready"
    ELSE IF isInitializing THEN "Initializing"
    ELSE "Uninitialized"

\* C20: the service state moves only Uninitialized -> Initializing,
\* Initializing -> Ready and, when an initialization step fails,
\* Initializing -> Uninitialized; the call whose step fails throws and
\* leaves isInitialized and isInitializing false; and an initialize() call
\* made in the Uninitialized state starts the initialization steps afresh.
C20_FacadeStateMachine ==
    [][/\ FacadeState' # FacadeState =>
            <<FacadeState, FacadeState'>> \in
                {<<"Uninitialized", "Initializing">>,
                 <<"Initializing", "Ready">>,
                 <<"Initializing", "Uninitialized">>}
       /\ \A c \in Running :
            /\ callers'[c].pc = "returned" =>
                    callers'[c].ret = (IF isInitialized' THEN "initialized" ELSE "threw")
            /\ callers'[c].ret = "threw" => (~isInitialized' /\ ~isInitializing')
       /\ (FacadeState = "Initializing" /\ FacadeState' = "Uninitialized")
            => \E c \in Running : callers'[c].ret = "threw"
       /\ \A c \in Callers : (Calls(c) /\ FacadeState = "Uninitialized")
            => (callers'[c].pc = "open" /\ FacadeState' = "Initializing")]_vars

\* an initialization failed with its error, and a later call's fresh
\* initialization succeeded
C20_Witness ==
    /\ FacadeState = "Ready"
    /\ ReturnedAs("threw") # {}
    /\ ReturnedAs("initialized") # {}

\* no initialize() call has succeeded, or close() was called since the last
\* one that did: initialize() was never called, is still in progress, or
\* failed, or the service was closed
NotSucceeded == ReturnedAs("initialized") = {}

\* C21: searchSimilar (and retrieval, through it) called in a state where
\* initialize() has not succeeded -- never called, still in progress,
\* failed, or closed since -- throws the not-initialized error and issues
\* no database query.
C21_SearchNeedsInitialize ==
    [][(searchSimilar /\ NotSucceeded)
          => (/\ call'.pc = "done"
              /\ call'.error = "NotInitialized"
              /\ searchResults' = << >>
              /\ outcome' = NoOutcome
              /\ UNCHANGED <<db, isInitialized, isInitializing>>)]_vars

\* a search made after close() was turned down, although an earlier
\* initialize() had succeeded
C21_Witness ==
    /\ call.pc = "done" /\ call.error = "NotInitialized"
    /\ ReturnedAs("closed") # {}
    /\ NotSucceeded
    /\ Running = {}

\* searchSimilar has resolved: searchResults is what it resolved with
Searched == call.pc = "searched"

\* the similarity of row id of the table to the query of the call
SimilarityOfRow(id) == cosineSimilarity(call.embedding, documents[id].embedding.value)

\* C22: every result the similarity search returns carries the similarity
\* of its row to the query, that similarity is >= threshold, and the
\* returned sequence is non-increasing in similarity.
C22_AboveThresholdAndSorted ==
    Searched =>
        /\ \A k \in 1..Len(searchResults) :
              /\ searchResults[k].id \in 1..Len(documents)
              /\ searchResults[k].similarity = SimilarityOfRow(searchResults[k].id)
              /\ Geq(searchResults[k].similarity, call.threshold)
        /\ \A k \in 1..(Len(searchResults) - 1) :
              Geq(searchResults[k].similarity, searchResults[k + 1].similarity)

\* threshold 0.4 on three rows: the row of similarity 0 was left out, and
\* the row of similarity 1, scanned last, is returned first
C22_Witness ==
    /\ Searched
    /\ call.threshold = Similarity(2, 25)
    /\ Len(documents) = 3
    /\ documents[1].embedding = Json(<<0, 1>>)
    /\ Len(searchResults) = 2
    /\ searchResults[1].id = 3
    /\ searchResults[2].id = 2
    /\ ~Geq(searchResults[2].similarity, searchResults[1].similarity)

\* rows of the table the SELECT of the call returns
Selected ==
    {i \in 1..Len(documents) :
        call.collectionName = "null"
        \/ documents[i].collection_name = call.collectionName}

\* selected rows whose embedding parses to a vector of the query's dimension
WellFormed ==
    {i \in Selected :
        /\ ~documents[i].embedding.throws
        /\ Len(documents[i].embedding.value) = Len(call.embedding)}

\* well-formed rows whose similarity to the query is >= threshold
Qualifying == {i \in WellFormed : Geq(SimilarityOfRow(i), call.threshold)}

\* ids of the rows returned
ReturnedIds == {searchResults[k].id : k \in 1..Len(searchResults)}

\* C23: the similarity search returns min(topK, number of qualifying
\* candidates) results, each a different qualifying row, and no qualifying
\* row left out has a strictly higher similarity than a returned one.
C23_TopKBest ==
    Searched =>
        /\ Len(searchResults) =
              (IF call.topK < Cardinality(Qualifying) THEN call.topK
               ELSE Cardinality(Qualifying))
        /\ Cardinality(ReturnedIds) = Len(searchResults)
        /\ ReturnedIds \subseteq Qualifying
        /\ \A i \in Qualifying \ ReturnedIds : \A j \in ReturnedIds :
              Geq(SimilarityOfRow(j), SimilarityOfRow(i))

\* topK = 1 on a table whose closest row is scanned last: that row is the
\* one returned, the two other qualifying rows are left out
C23_Witness ==
    /\ Searched
    /\ call.topK = 1
    /\ Cardinality(Qualifying) = 3
    /\ ReturnedIds = {3}
    /\ ~Geq(SimilarityOfRow(1), SimilarityOfRow(3))
    /\ ~Geq(SimilarityOfRow(2), SimilarityOfRow(3))

\* a row whose embedding does not parse or is not of the query's dimension
Malformed(row) ==
    row.embedding.throws \/ Len(row.embedding.value) # Len(call.embedding)

\* the positions of the rows of the table that are not malformed, in order
RECURSIVE SoundPositions(_)
SoundPositions(i) ==
    IF i > Len(documents) THEN << >>
    ELSE (IF Malformed(documents[i]) THEN << >> ELSE <<i>>) \o SoundPositions(i + 1)

\* the table with its malformed rows removed
SoundTable ==
    [k \in 1..Len(SoundPositions(1)) |-> documents[SoundPositions(1)[k]]]

\* the search of the call run on the table without its malformed rows, each
\* result named by the position its row has in the full table
SearchOfSoundTable ==
    LET found == performSimilaritySearch(SoundTable, call.embedding, call.topK,
                                         call.threshold, call.collectionName)
    IN [k \in 1..Len(found) |-> [found[k] EXCEPT !.id = SoundPositions(1)[@]]]

\* C24: a stored row whose embedding is malformed (unparsable, or of
\* another dimension than the query) is skipped without aborting the scan:
\* the search resolves, with exactly the result it resolves with on the
\* same table with the malformed rows removed.
C24_MalformedRowsSkipped ==
    Searched => searchResults = SearchOfSoundTable

\* an unparsable row and a row of another dimension were scanned before the
\* one sound row, which is returned
C24_Witness ==
    /\ Searched
    /\ Len(documents) = 3
    /\ documents[1].embedding.throws
    /\ documents[2].embedding = Json(<<1>>)
    /\ Len(searchResults) = 1
    /\ searchResults[1].id = 3

\* C25: the context retrieval returns has at most maxContextLength
\* characters.
C25_ContextWithinBudget ==
    outcome.returned => Len(outcome.context) <= call.maxContextLength

\* the budget cut the list: two documents were found, one is in the context
C25_Witness ==
    /\ outcome.returned
    /\ Len(searchResults) = 2
    /\ Len(outcome.documentsUsed) = 1
    /\ outcome.context # << >>

\* characters the first k results take in the context, delimiters included
RECURSIVE ChunkLength(_)
ChunkLength(k) ==
    IF k = 0 THEN 0 ELSE Len(searchResults[k].content) + 2 + ChunkLength(k - 1)

\* C26: retrieval includes whole chunks only and stops at the first chunk
\* that would exceed the budget: documentsUsed names the longest prefix of
\* the ranked results whose chunk-plus-delimiter lengths sum to at most
\* maxContextLength, and totalDocumentsFound is the number of results.
C26_LongestPrefixWithinBudget ==
    outcome.returned =>
        LET n == Len(outcome.documentsUsed) IN
        /\ n <= Len(searchResults)
        /\ \A k \in 1..n :
              outcome.documentsUsed[k] =
                  [id |-> searchResults[k].id,
                   similarity |-> searchResults[k].similarity,
                   collectionName |-> searchResults[k].collectionName]
        /\ ChunkLength(n) <= call.maxContextLength
        /\ n < Len(searchResults) => ChunkLength(n + 1) > call.maxContextLength
        /\ outcome.totalDocumentsFound = Len(searchResults)

\* the first of two results is over the budget and the second, alone, is
\* not: no document is used
C26_Witness ==
    /\ outcome.returned
    /\ Len(searchResults) = 2
    /\ outcome.documentsUsed = << >>
    /\ outcome.totalDocumentsFound = 2
    /\ Len(searchResults[2].content) + 2 <= call.maxContextLength

\* C27: in every outcome retrieval returns, contextLength is the character
\* length of the returned context.
C27_ContextLengthIsLength ==
    outcome.returned => outcome.contextLength = Len(outcome.context)

\* stop markers in the whole transcript
RECURSIVE TotalMarkers(_)
TotalMarkers(c) ==
    IF c = << >> THEN 0 ELSE MarkerCount(Head(c).content) + TotalMarkers(Tail(c))

\* C28: a token fragment that arrives while a stopCompletion call is
\* pending is still applied to the in-progress assistant turn; a stop
\* marker enters the transcript only in the step in which a stopCompletion
\* call settles; and that step appends it to the content the turn has
\* then, so after every fragment applied before.
C28_MarkerAfterCancelSettles ==
    [][/\ \A i \in 1..Len(pipes) :
            (TokenStep(i) /\ stopCalls > 0 /\ Last(conversation).role = "assistant")
            => Last(conversation').content = Trim(pipes'[i].cam)
       /\ TotalMarkers(conversation') > TotalMarkers(conversation)
            => /\ stopCalls' = stopCalls - 1
               /\ Len(conversation') = Len(conversation)
               /\ Last(conversation').content = Last(conversation).content \o StopMarker
       /\ stopsPressed' # stopsPressed => conversation' = conversation]_vars

\* mid-stream, after one press of Stop has settled: the marker follows the
\* fragment "H" in the turn of a completion that is still pending
C28_Witness ==
    /\ stopsPressed = 1 /\ stopCalls = 0
    /\ Len(pipes) = 1
    /\ pipes[1].pc = "completion" /\ pipes[1].cam = <<"H">>
    /\ Last(conversation) = Message("assistant", <<"H">> \o StopMarker)

\* rows i and j are equally similar to the query
Tie(i, j) ==
    /\ Geq(SimilarityOfRow(i), SimilarityOfRow(j))
    /\ Geq(SimilarityOfRow(j), SimilarityOfRow(i))

\* C29: among candidates of equal similarity the search keeps scan (row)
\* order: in the result an earlier row comes before a later row of equal
\* similarity, and when topK cuts a tie it is the earlier rows that stay.
C29_TiesInScanOrder ==
    Searched =>
        /\ \A k \in 1..(Len(searchResults) - 1) :
              Tie(searchResults[k].id, searchResults[k + 1].id)
                  => searchResults[k].id < searchResults[k + 1].id
        /\ \A i \in Qualifying \ ReturnedIds : \A j \in ReturnedIds :
              Tie(i, j) => j < i

\* three rows of equal similarity and topK = 2: the first two are returned,
\* in scan order, and the third is cut
C29_Witness ==
    /\ Searched
    /\ call.topK = 2
    /\ Qualifying = {1, 2, 3}
    /\ Tie(1, 2) /\ Tie(2, 3)
    /\ Len(searchResults) = 2
    /\ searchResults[1].id = 1
    /\ searchResults[2].id = 2

\* the positions of the rows of the collection of the call, in order
RECURSIVE CollectionPositions(_)
CollectionPositions(i) ==
    IF i > Len(documents) THEN << >>
    ELSE (IF documents[i].collection_name = call.collectionName THEN <<i>> ELSE << >>)
         \o CollectionPositions(i + 1)

\* the table with only the rows of the collection of the call
CollectionTable ==
    [k \in 1..Len(CollectionPositions(1)) |-> documents[CollectionPositions(1)[k]]]

\* the search of the call run without filter on the rows of its collection
\* only, each result named by the position its row has in the full table
UnfilteredSearchOfCollection ==
    LET found == performSimilaritySearch(CollectionTable, call.embedding, call.topK,
                                         call.threshold, "null")
    IN [k \in 1..Len(found) |-> [found[k] EXCEPT !.id = CollectionPositions(1)[@]]]

\* rows of any collection that are sound and at or above the threshold
AboveThreshold ==
    {i \in 1..Len(documents) :
        /\ ~Malformed(documents[i])
        /\ Geq(SimilarityOfRow(i), call.threshold)}

ZeroNormRows ==
    {i \in WellFormed :
        \/ Dot(documents[i].embedding.value, documents[i].embedding.value) = 0
        \/ Dot(call.embedding, call.embedding) = 0}

\* C31: cosineSimilarity of two vectors of equal length is 0 when either has
\* norm 0 (a value, not an error), so such a row is kept by the search
\* exactly when threshold <= 0: it is never returned under a positive
\* threshold, and under a threshold <= 0 it is returned unless topK cut
\* the result.
C31_ZeroNormSimilarityIsZero ==
    Searched =>
        \A i \in ZeroNormRows :
            /\ cosineSimilarity(call.embedding, documents[i].embedding.value)
                   = Similarity(0, 1)
            /\ i \in ReturnedIds => Geq(Similarity(0, 1), call.threshold)
            /\ (Geq(Similarity(0, 1), call.threshold) /\ Len(searchResults) < call.topK)
                   => i \in ReturnedIds

\* threshold 0.0, a zero-vector row scanned before a row of similarity 1:
\* both are returned, the zero-vector row last
C31_Witness ==
    /\ Searched
    /\ call.embedding = <<1, 0>>
    /\ call.threshold = Similarity(0, 1)
    /\ Len(documents) = 2
    /\ documents[1].embedding = Json(<<0, 0>>)
    /\ Len(searchResults) = 2
    /\ searchResults[2].id = 1
    /\ searchResults[2].similarity = Similarity(0, 1)

\* embedText has returned a vector
Embedded == embedded.pc = "done" /\ embedded.error = "none"

\* every component of the vector is 0
AllZero(v) == \A j \in 1..Len(v.num) : v.num[j] = 0

\* C32: every vector embedText returns has L2 norm 1, or is the all-zero
\* vector when the pooled output of the model has norm 0; a pooled output
\* of norm 0 is returned unchanged, and normalising raises no error (the
\* only errors of embedText are its guard's and session.run's).
C32_EmbeddingIsUnitOrZero ==
    /\ embedded.error \in {"none", "NotInitialised", "session.run"}
    /\ Embedded =>
          /\ Len(embedded.vector.num) = Len(tensor.data[1])
          /\ IF Norm2(Pooled(tensor)).n = 0
             THEN AllZero(embedded.vector) /\ embedded.vector = Pooled(tensor)
             ELSE Norm2(embedded.vector).n = Norm2(embedded.vector).d

\* token vectors (1, 1) and (1, 0): the mean (1, 1/2) has norm sqrt(5)/2,
\* and (2, 1) / sqrt(5) is returned
C32_Witness ==
    /\ Embedded
    /\ tensor = [dims |-> 3, data |-> << <<1, 1>>, <<1, 0>> >>]
    /\ Pooled(tensor) = Scaled(<<2, 1>>, 4)
    /\ embedded.vector = Scaled(<<2, 1>>, 5)

\* C33: whenever a completion call of the orchestrator is pending,
\* isGenerating is true.
C33_GeneratingWhileCompletionPending ==
    \A i \in 1..Len(pipes) : pipes[i].pc = "completion" => isGenerating

\* the index at which the submission of pipe i put its assistant
\* placeholder (entries are only ever removed at the end, so an entry keeps
\* its index)
Placeholder(i) == Len(pipes[i].base) + 2

\* C34: the token callback and the failure rollback of a generation touch
\* no assistant turn but the one that generation created: every other
\* assistant turn is in the transcript after the step as it was before.
C34_OnlyOwnAssistantTurn ==
    [][\A i \in 1..Len(pipes) :
          (TokenStep(i) \/ Fails(i, "embedding") \/ Fails(i, "search")
                        \/ Fails(i, "inference"))
          => \A k \in 1..Len(conversation) :
                (k # Placeholder(i) /\ conversation[k].role = "assistant")
                => (k <= Len(conversation') /\ conversation'[k] = conversation[k])]_vars

\* the stop marker is the suffix of content c
EndsWithMarker(c) ==
    /\ Len(c) >= Len(StopMarker)
    /\ SubSeq(c, Len(c) - Len(StopMarker) + 1, Len(c)) = StopMarker

\* C35: a token callback leaves the stop marker where it is: an assistant
\* turn whose content ends with the marker before the callback is in the
\* transcript after it with content that ends with the marker.
C35_MarkerStaysSuffix ==
    [][\A i \in 1..Len(pipes) :
          TokenStep(i)
          => \A k \in 1..Len(conversation) :
                (conversation[k].role = "assistant"
                 /\ EndsWithMarker(conversation[k].content))
                => (/\ k <= Len(conversation')
                    /\ EndsWithMarker(conversation'[k].content))]_vars

\* C36: the failure rollback of handleSendMessage removes no user turn and
\* not the system turn: every entry that is not an assistant turn is in the
\* transcript after the failure as it was before.
C36_RollbackRemovesAssistantOnly ==
    [][\A i \in 1..Len(pipes) :
          (Fails(i, "embedding") \/ Fails(i, "search") \/ Fails(i, "inference"))
          => \A k \in 1..Len(conversation) :
                conversation[k].role # "assistant"
                => (k <= Len(conversation') /\ conversation'[k] = conversation[k])]_vars

\* C37: the transcript is the system turn followed by user and assistant
\* turns in strict alternation, user first (so that the assistant turn at
\* index k of conversation.slice(1) is the (floor(k / 2) + 1)-th assistant
\* turn, the one tokensPerSecond[floor(k / 2)] is shown for).
C37_TurnsAlternate ==
    /\ Len(conversation) >= 1
    /\ \A k \in 1..Len(conversation) :
          conversation[k].role = IF k = 1 THEN "system"
                                 ELSE IF k % 2 = 0 THEN "user" ELSE "assistant"

\* the initialize() call of caller c returns in this step without throwing
ReturnsNormally(c) ==
    /\ callers[c].pc # "returned"
    /\ callers'[c].pc = "returned"
    /\ callers'[c].ret \in {"immediate", "waited", "initialized"}

\* C38: whenever an initialize() call returns without throwing, the
\* service is initialized (isInitialized is true) as it returns.
C38_NormalReturnMeansReady ==
    [][\A c \in Callers : ReturnsNormally(c) => isInitialized']_vars

\* C39: when the steps of an initialization settle, isInitializing is reset
\* to false in the end, and every caller in the polling loop returns in the
\* end.
C39_NoCallerWaitsForever ==
    /\ isInitializing ~> ~isInitializing
    /\ \A c \in Callers : (callers[c].pc = "polling") ~> (callers[c].pc = "returned")

\* two callers waited through an initialization that failed, and have
\* returned
C39_Witness ==
    /\ ~isInitializing
    /\ ReturnedAs("threw") # {}
    /\ Cardinality(ReturnedAs("waited")) = 2

\* C40: under any interleaving of initialize() and close(), a service
\* marked initialized has an open database: isInitialized implies that the
\* database handle is not null.
C40_InitializedHasDatabase == isInitialized => db # "null"

====
